---- MODULE Spec2Model ----
(***************************************************************************)
(* Model of lifx_control_panel/utilities/color_thread.py: the              *)
(* ColorThreadRunner (start / stop / match_color), its ColorThread         *)
(* objects, the configuration it reads and the bulb it pushes to; the      *)
(* memoized get_monitor_bounds and the two samplers, avg_screen_color and   *)
(* dominant_screen_color; and of colorscale.py: the ColorScale widget.     *)
(***************************************************************************)
EXTENDS Integers, Sequences, FiniteSets, TLC

\* ---------------------------------------------------------------- bounds
MaxThreads == 2      \* ColorThread objects one runner creates in a run
MaxCalls == 2        \* set_color calls the bulb receives in a run
MaxCtl == 3          \* start()/stop() calls the controller makes in a run
MaxSelectors == 34   \* selector functions ever passed to get_monitor_bounds

\* ------------------------------------------------------ program constants
MAX_BRIGHTNESS == 65535
maxsize == 32        \* @lru_cache(maxsize=32)

\* ------------------------------------------------------------ value sets
Threads == 0 .. (MaxThreads - 1)

\* an HSBK colour is a 4-tuple <<hue, saturation, brightness, kelvin>>;
\* Python's color[2] is index 3 here and initial_color[3] is index 4
Kelvins == {3500, 6500}
ParentColors == {<<0, 0, 65535, k>> : k \in Kelvins}
\* what the screen reduces to: hue, saturation, brightness of RGBtoHSBK
ScreenHSB == {<<21845, 65535, b>> : b \in {30000}}
NoColor == <<>>

\* a configuration value is a string; a string either parses as a number
\* or it does not
Num(n) == [num |-> TRUE, val |-> n]
NotANumber == [num |-> FALSE, val |-> 0]
\* the settings the model visits: two numeric ones that differ in both
\* keys, and each key unparsable once
Configs ==
    {[brightnessoffset |-> Num(-40000), duration |-> Num(1)],
     [brightnessoffset |-> Num(40000), duration |-> Num(2)],
     [brightnessoffset |-> NotANumber, duration |-> Num(1)],
     [brightnessoffset |-> Num(40000), duration |-> NotANumber]}

VARIABLES
    thread,        \* self.thread: the runner's current ColorThread object
    nThreads,      \* ColorThread objects constructed so far
    started,       \* Thread._started of each ColorThread
    stopEv,        \* ColorThread._stop of each ColorThread
    pc,            \* position of each thread's match_color
    color,         \* match_color's local `color` of each thread
    prev_color,    \* self.prev_color
    continuous,    \* self.continuous
    config,        \* config["AverageColor"]
    parentColor,   \* what parent.get_color_values_hsbk() returns
    lastPush,      \* arguments of the latest set_color call on the bulb,
                   \* and whether it returned
    calls,         \* history: set_color calls the bulb has received
    hist,          \* history: the controller's calls, in order
    callErr,       \* history: exception the latest controller call raised
    stopReq,       \* history: stop() was called while this worker ran
    iter           \* history: did the worker's previous push fail, the
                   \* prev_color its last assignment left, and the kelvin
                   \* of the baseline it fetched when it started
VARIABLES
    cache,           \* get_monitor_bounds' lru_cache: <<func, result>> pairs,
                     \* least recently used first
    nSelectors,      \* selector functions created so far
    defaultMonitor,  \* config["AverageColor"]["DefaultMonitor"]
    resolved         \* history: the latest get_monitor_bounds call
VARIABLES
    screen,          \* what the captured region of the screen shows
    sampled          \* the outcome of the latest sampler call
VARIABLES
    cfgContinuous    \* what the settings hold for `continuous`; no method
                     \* of the runner reads it
VARIABLES
    bucket           \* one pixel on its way through the histogram's
                     \* bucket encoding
VARIABLES
    self_min,        \* ColorScale.min
    self_max,        \* ColorScale.max
    variable,        \* the value ColorScale._variable holds
    command,         \* whether ColorScale.command is set
    winfo_width,     \* the widget's width in pixels
    notified         \* history: the latest write to the variable, and the
                     \* notifications made while it was processed

resolverVars == <<cache, nSelectors, defaultMonitor, resolved>>

\* what the runner's methods leave alone
samplerVars == <<screen, sampled>>
widgetVars == <<self_min, self_max, variable, command, winfo_width, notified>>
otherVars == <<resolverVars, samplerVars, cfgContinuous, bucket, widgetVars>>

runnerVars == <<thread, nThreads, started, stopEv, pc, color, prev_color,
                continuous, config, parentColor, lastPush, calls, hist,
                callErr, stopReq, iter>>

vars == <<runnerVars, otherVars>>

\* what each of the other components leaves alone
exceptResolver == <<runnerVars, samplerVars, cfgContinuous, bucket, widgetVars>>
exceptSampler == <<runnerVars, resolverVars, cfgContinuous, bucket, widgetVars>>
exceptBucket ==
    <<runnerVars, resolverVars, samplerVars, cfgContinuous, widgetVars>>
exceptWidget == <<runnerVars, resolverVars, samplerVars, cfgContinuous, bucket>>

NoPush == [color |-> NoColor, duration |-> 0, rapid |-> FALSE, ok |-> FALSE]
NoIter == [failedBefore |-> FALSE, left |-> NoColor, base |-> 0]

Running == {"init", "check", "sample", "push", "assign", "oneshot"}
Alive(t) == started[t] /\ pc[t] \in Running
AliveWorkers == {t \in Threads : Alive(t)}
Started == {t \in Threads : started[t]}

\* history: the colour an assignment of worker t leaves, remembered while
\* t is the only thread this runner has started
LeftBy(t, c) == IF Started = {t} THEN c ELSE NoColor

\* ----------------------------------------------------------- ColorThread
\* a stop event that a second stop() clears again
EventToggle(ev, t) == [ev EXCEPT ![t] = ~@]

\* threading.Event.set()
EventSet(ev, t) == [ev EXCEPT ![t] = TRUE]

\* ColorThread.stopped()
stopped(t) == stopEv[t]

\* threading.Thread.start(): a thread object starts at most once
ThreadStartRaises(t) == IF started[t] THEN "RuntimeError" ELSE "none"

\* ------------------------------------------------------ ColorThreadRunner
\* int(config[...]) / float(config[...])
ParseNumber(s) == IF s.num THEN [exc |-> "none", val |-> s.val]
                  ELSE [exc |-> "ValueError", val |-> 0]

get_brightness_offset == ParseNumber(config.brightnessoffset)

\* `continuous` taken from the settings at each use
ReadContinuousFromSettings == cfgContinuous

\* self.continuous, as read at lines 163 and 169
ReadContinuous == continuous

\* the duration read once, when the setting was 1, and kept
get_duration_snapshot == ParseNumber(Num(1))

get_duration == ParseNumber(config.duration)

\* the offset added without the min()
ApplyOffsetNoClamp(c, off) == [c EXCEPT ![3] = c[3] + off]

\* color[2] = min(color[2] + offset, 65535)
ApplyOffset(c, off) ==
    [c EXCEPT ![3] = IF c[3] + off < MAX_BRIGHTNESS THEN c[3] + off
                     ELSE MAX_BRIGHTNESS]

\* list(utils.RGBtoHSBK(color, temperature=initial_color[3]))
SamplerResult(hsb, initial_color) ==
    <<hsb[1], hsb[2], hsb[3], initial_color[4]>>

\* the except clause of start()
StartCatches(exc) == exc = "RuntimeError"

\* the except clause of match_color
LoopCatches(exc) == exc = "OSError"

\* -------------------------------------------------- get_monitor_bounds
\* what a selector returns or the setting holds: None, or a string
None == "None"
Monitors == {"full", "0,0,1920,1080"}

\* Python's truth value of a selector's result
Truthy(v) == v \notin {None, ""}

\* selector 0 is the default argument of the samplers, `lambda: None`; a
\* selector passed by a caller returns the bounds of some window
SelectorReturns(f) ==
    IF f = 0 THEN None
    ELSE IF f % 2 = 1 THEN "0,0,800,600" ELSE "100,100,640,480"

\* the body of get_monitor_bounds with the `or` dropped
BoundsOfNoDefault(f, default) == SelectorReturns(f)

\* the body of get_monitor_bounds, line 27
BoundsOf(f, default) ==
    IF Truthy(SelectorReturns(f)) THEN SelectorReturns(f) ELSE default

NoResolve == [func |-> -1, result |-> None, invoked |-> FALSE]

Keys(c) == {c[i][1] : i \in 1 .. Len(c)}
Without(c, f) == SelectSeq(c, LAMBDA e : e[1] # f)
Cached(c, f) == (CHOOSE i \in 1 .. Len(c) : c[i][1] = f)

ResolverInit ==
    /\ cache = <<>>
    /\ nSelectors = 1
    /\ defaultMonitor = "full"
    /\ resolved = NoResolve

\* lru_cache: a hit returns the stored result and makes the entry the most
\* recently used; a miss calls the function, stores the result as the most
\* recently used entry and, when the cache is full, drops the least
\* recently used one
get_monitor_bounds(f) ==
    IF f \in Keys(cache)
    THEN LET e == cache[Cached(cache, f)]
         IN /\ cache' = Append(Without(cache, f), e)
            /\ resolved' = [func |-> f, result |-> e[2], invoked |-> FALSE]
    ELSE LET r == BoundsOf(f, defaultMonitor)
             kept == IF Len(cache) < maxsize THEN cache ELSE Tail(cache)
         IN /\ cache' = Append(kept, <<f, r>>)
            /\ resolved' = [func |-> f, result |-> r, invoked |-> TRUE]

\* a sampler resolves its region with the default selector
ResolveDefault ==
    /\ get_monitor_bounds(0)
    /\ UNCHANGED <<nSelectors, defaultMonitor>>
    /\ UNCHANGED exceptResolver

\* a sampler resolves its region with the selector passed last
ResolveLatest ==
    /\ nSelectors > 1
    /\ get_monitor_bounds(nSelectors - 1)
    /\ UNCHANGED <<nSelectors, defaultMonitor>>
    /\ UNCHANGED exceptResolver

\* a sampler resolves its region with a selector not seen before
ResolveFresh ==
    /\ nSelectors < MaxSelectors
    /\ get_monitor_bounds(nSelectors)
    /\ nSelectors' = nSelectors + 1
    /\ UNCHANGED defaultMonitor
    /\ UNCHANGED exceptResolver

\* the DefaultMonitor setting is edited
EditDefaultMonitor ==
    /\ \E m \in Monitors : m # defaultMonitor /\ defaultMonitor' = m
    /\ UNCHANGED <<cache, nSelectors, resolved>>
    /\ UNCHANGED exceptResolver

\* ------------------------------------------------------------ the samplers
\* an RGB pixel is a triple of bytes
Palette == {<<0, 0, 0>>, <<255, 255, 255>>, <<255, 0, 0>>}
Widths == {0, 3, 4, 8}
Heights == {0, 2, 4}

\* the images the model captures: vertical stripes, cols[x] being the
\* colour of every pixel of column x
Screens ==
    UNION {[width : {w}, height : {h}, cols : [1 .. w -> Palette]] :
             <<w, h>> \in Widths \X Heights}

NoSample == [by |-> "none", exc |-> "none", rgb |-> <<>>, kelvin |-> 0]
Failed(strategy, exc) ==
    [by |-> strategy, exc |-> exc, rgb |-> <<>>, kelvin |-> 0]

\* list(utils.RGBtoHSBK(color, temperature=initial_color[3])): the result
\* keeps the RGB value that lifxlan converts, and the kelvin passed along
Returned(strategy, rgb, initial_color) ==
    [by |-> strategy, exc |-> "none", rgb |-> rgb,
     kelvin |-> initial_color[4]]

SamplerInit ==
    /\ screen = [width |-> 4, height |-> 4,
                 cols |-> [x \in 1 .. 4 |-> <<0, 0, 0>>]]
    /\ sampled = NoSample

\* the region has no pixels
EmptyRegion(img) == img.width = 0 \/ img.height = 0

\* the region has pixels, and none after the dominant strategy's downscale
EmptyAfterDownscale(img) ==
    ~EmptyRegion(img) /\ (img.width < 4 \/ img.height < 4)

\* get_rect_as_image, lines 54-55: the function does not look at the
\* rectangle; given an empty one, the capture backend raises its
\* ScreenShotError, or Image.frombytes raises ValueError, or an image
\* without pixels comes back, depending on the platform and the library
grab(img) ==
    IF EmptyRegion(img) THEN {"ScreenShotError", "ValueError", "none"}
    ELSE {"none"}

\* Image.resize(size, Image.HAMMING) on 8-bit channels: the coefficients
\* of Pillow's Hamming filter (support 1.0, scaled by the reduction), as
\* integers with 22 fractional bits; k[i] weighs input pixel xmin + i
Coeffs(inSize, outSize) ==
    CASE inSize = 0 -> [xx \in 1 .. outSize |-> [xmin |-> 0, k |-> <<>>]]
      [] <<inSize, outSize>> = <<2, 1>> ->
           <<[xmin |-> 0, k |-> <<2097152, 2097152>>]>>
      [] <<inSize, outSize>> = <<3, 1>> ->
           <<[xmin |-> 0, k |-> <<1174747, 1844810, 1174747>>]>>
      [] <<inSize, outSize>> = <<4, 1>> ->
           <<[xmin |-> 0, k |-> <<784076, 1313076, 1313076, 784076>>]>>
      [] <<inSize, outSize>> = <<8, 1>> ->
           <<[xmin |-> 0,
              k |-> <<316455, 474487, 612698, 693512,
                      693512, 612698, 474487, 316455>>]>>
      [] <<inSize, outSize>> = <<8, 2>> ->
           <<[xmin |-> 0,
              k |-> <<738062, 1236018, 1236018, 738062, 225097, 21046>>],
             [xmin |-> 2,
              k |-> <<21046, 225097, 738062, 1236018, 1236018, 738062>>]>>

RECURSIVE Dot(_, _, _, _)
Dot(k, line, xmin, i) ==
    IF i > Len(k) THEN 0
    ELSE k[i] * line[xmin + i] + Dot(k, line, xmin, i + 1)

clip8(v) == IF v < 0 THEN 0 ELSE IF v > 255 THEN 255 ELSE v

\* one pass of the resampling over one line of one channel
ResampleLine(line, outSize) ==
    [xx \in 1 .. outSize |->
       LET c == Coeffs(Len(line), outSize)[xx]
       IN clip8((Dot(c.k, line, c.xmin, 1) + 2097152) \div 4194304)]

\* the horizontal pass over a row of stripes, then the vertical pass over
\* each resulting column, whose pixels are all alike
ResizeStripes(img, w, h) ==
    LET row == [ch \in 1 .. 3 |->
                  ResampleLine([x \in 1 .. img.width |-> img.cols[x][ch]], w)]
        down(v) == ResampleLine([y \in 1 .. img.height |-> v], h)[1]
    IN [width |-> w, height |-> h,
        cols |-> [x \in 1 .. w |->
                    <<down(row[1][x]), down(row[2][x]), down(row[3][x])>>]]

\* Image.resize: a target without pixels is refused
resize(img, w, h) == IF w < 1 \/ h < 1 THEN "ValueError" ELSE "none"

\* screenshot.width // 4
Downscale(n) == n \div 4

\* a0*s0*s1 + a1*s0 + a2 evaluated in the width of the uint8 operands
EncodeUint8(rgb, s0, s1) == (rgb[1] * s0 * s1 + rgb[2] * s0 + rgb[3]) % 256

\* ne.evaluate("a0*s0*s1+a1*s0+a2"): numexpr computes uint8 operands as
\* 32-bit integers, and no term reaches 2^24
Encode(rgb, s0, s1) == rgb[1] * s0 * s1 + rgb[2] * s0 + rgb[3]

col_range == <<256, 256, 256>>

\* np.unravel_index(n, shape), row-major
unravel_index(n, shape) ==
    <<n \div (shape[2] * shape[3]), (n \div shape[3]) % shape[2],
      n % shape[3]>>

\* np.bincount(a1D).argmax(): the bucket with the most pixels, the lowest
\* such bucket when several have as many
MostFrequent(img) ==
    LET a1D == [x \in 1 .. img.width |->
                  Encode(img.cols[x], col_range[1], col_range[2])]
        count(b) == img.height * Cardinality({x \in 1 .. img.width :
                                                a1D[x] = b})
        buckets == {a1D[x] : x \in 1 .. img.width}
        best == {b \in buckets : \A o \in buckets : count(b) >= count(o)}
    IN CHOOSE b \in best : \A o \in best : b <= o

\* ----------------------------------------------- the bucket encoding alone
\* a pixel (or a bucket number) and what encoding and decoding make of it
Pixel(rgb) == [stage |-> "pixel", rgb |-> rgb, n |-> -1, rgb0 |-> rgb, n0 |-> -1]
Bucket(n) == [stage |-> "bucket", rgb |-> <<>>, n |-> n, rgb0 |-> <<>>, n0 |-> n]

BucketInit == bucket = Pixel(<<0, 0, 0>>)

\* one element of a1D, line 104
EncodePixel ==
    /\ bucket.stage \in {"pixel", "unraveled"}
    /\ bucket' = [bucket EXCEPT
                    !.stage = IF @ = "pixel" THEN "encoded" ELSE "reencoded",
                    !.n = Encode(bucket.rgb, col_range[1], col_range[2])]
    /\ UNCHANGED exceptBucket

\* np.unravel_index of a bucket number, line 105
DecodeBucket ==
    /\ bucket.stage \in {"encoded", "bucket"}
    /\ bucket' = [bucket EXCEPT
                    !.stage = IF @ = "encoded" THEN "decoded"
                              ELSE "unraveled",
                    !.rgb = unravel_index(bucket.n, col_range)]
    /\ UNCHANGED exceptBucket

avg_screen_color(initial_color) ==
    /\ \E g \in grab(screen) :
         sampled' =
           IF g # "none" THEN Failed("avg", g)
           ELSE IF resize(screen, 1, 1) # "none"
                THEN Failed("avg", resize(screen, 1, 1))
           ELSE Returned("avg", ResizeStripes(screen, 1, 1).cols[1],
                         initial_color)
    /\ UNCHANGED <<screen, exceptSampler>>

dominant_screen_color(initial_color) ==
    /\ LET w == Downscale(screen.width)
           h == Downscale(screen.height)
       IN \E g \in grab(screen) :
            sampled' =
              IF g # "none" THEN Failed("dominant", g)
              ELSE IF resize(screen, w, h) # "none"
                   THEN Failed("dominant", resize(screen, w, h))
              ELSE Returned("dominant",
                            unravel_index(
                                MostFrequent(ResizeStripes(screen, w, h)),
                                col_range),
                            initial_color)
    /\ UNCHANGED <<screen, exceptSampler>>

\* -------------------------------------------------------------- ColorScale
\* a number written to the variable has at most two decimals: it is held
\* in hundredths until int() is applied to it
MinOf(a, b) == IF a <= b THEN a ELSE b
MaxOf(a, b) == IF a >= b THEN a ELSE b
Abs(a) == IF a >= 0 THEN a ELSE -a

\* int(x) of a number given in hundredths: towards zero
IntOf(h) == IF h >= 0 THEN h \div 100 ELSE -((-h) \div 100)

\* round(a / b, 2), in hundredths, for b > 0 and a quotient that is not
\* half-way between two hundredths
round2(a, b) ==
    IF a >= 0 THEN (200 * a + b) \div (2 * b)
    ELSE -((200 * (-a) + b) \div (2 * b))

FromValues == {0, 10}
ToValues == {100, 360}
HueArgs == {-5, 0, 5, 120, 400}
WrittenValues == {-500, 267, 500, 1000, 12000, 36000, 40000}
PointerXs == -1 .. 9
\* widths for which none of round2's quotients is half-way
WidgetWidths == {7}

\* ColorScale.__init__, lines 21-37: the initial hue is the `hue` argument,
\* or int(variable.get()) when a variable is passed; it is clamped and
\* written to the variable, and the write trace is added after that
Constructed(from_, to, hue, cmd, w) ==
    /\ self_min = from_
    /\ self_max = to
    /\ variable = MaxOf(MinOf(to, hue), 0)
    /\ command = cmd
    /\ winfo_width = w
    /\ notified = [by |-> "construction", events |-> 0, commands |-> 0]

WidgetInit == Constructed(0, 360, 0, FALSE, 7)

\* the write trace _update_hue, lines 79-85, with ColorScale.set, lines
\* 92-96; the write that set() makes from inside the trace does not fire
\* the trace again
update_hue(written, by) ==
    LET hue == MinOf(MaxOf(IntOf(written), 0), self_max)
    IN /\ variable' = hue
       /\ notified' = [by |-> by, events |-> 1,
                       commands |-> IF command THEN 1 ELSE 0]
       /\ UNCHANGED <<self_min, self_max, command, winfo_width>>
       /\ UNCHANGED exceptWidget

\* ColorScale._on_click
on_click(x) ==
    update_hue(round2(self_max * x, winfo_width), "click")

\* ColorScale._on_move
on_move(x) ==
    LET xx == MinOf(MaxOf(Abs(x), 0), winfo_width)
    IN update_hue(round2(self_max * xx, winfo_width), "drag")

\* the owner of the variable writes a number to it
ExternalWrite(v) == update_hue(v, "write")

RunnerInit ==
    /\ thread = 0
    /\ nThreads = 1
    /\ started = [t \in Threads |-> FALSE]
    /\ stopEv = [t \in Threads |-> FALSE]
    /\ pc = [t \in Threads |-> "new"]
    /\ color = [t \in Threads |-> NoColor]
    /\ parentColor \in ParentColors
    /\ prev_color = parentColor
    /\ continuous \in BOOLEAN
    /\ config \in {c \in Configs : c.brightnessoffset.num /\ c.duration.num}
    /\ lastPush = NoPush
    /\ calls = 0
    /\ hist = <<>>
    /\ callErr = "none"
    /\ stopReq = [t \in Threads |-> FALSE]
    /\ iter = [t \in Threads |-> NoIter]
    /\ cfgContinuous = continuous

Init ==
    /\ RunnerInit
    /\ ResolverInit
    /\ SamplerInit
    /\ BucketInit
    /\ WidgetInit

\* ------------------------------------------------------------ controller
\* ColorThreadRunner.start
start ==
    /\ Len(hist) < MaxCtl
    /\ stopped(thread) => nThreads < MaxThreads
    /\ LET fresh == stopped(thread)
           th == IF fresh THEN nThreads ELSE thread
           exc == IF fresh THEN "none" ELSE ThreadStartRaises(th)
       IN /\ thread' = th
          /\ nThreads' = IF fresh THEN nThreads + 1 ELSE nThreads
          /\ IF exc = "none"
             THEN /\ started' = [started EXCEPT ![th] = TRUE]
                  /\ pc' = [pc EXCEPT ![th] = "init"]
                  /\ iter' = [t \in Threads |->
                                [iter[t] EXCEPT !.left = NoColor]]
             ELSE UNCHANGED <<started, pc, iter>>
          /\ callErr' = IF exc = "none" \/ StartCatches(exc) THEN "none"
                        ELSE exc
    /\ hist' = Append(hist, "start")
    /\ UNCHANGED <<stopEv, color, prev_color, continuous, config,
                   parentColor, lastPush, calls, stopReq>>
    /\ UNCHANGED otherVars

\* ColorThreadRunner.stop, called by the controller
stop ==
    /\ Len(hist) < MaxCtl
    /\ stopEv' = EventSet(stopEv, thread)
    /\ stopReq' = [t \in Threads |->
                     stopReq[t] \/ (t = thread /\ Alive(t))]
    /\ callErr' = "none"
    /\ hist' = Append(hist, "stop")
    /\ UNCHANGED <<thread, nThreads, started, pc, color, prev_color,
                   continuous, config, parentColor, lastPush, calls, iter>>
    /\ UNCHANGED otherVars

\* ---------------------------------------------------------------- worker
\* match_color, lines 151-154: prev_color = parent.get_color_values_hsbk()
MatchInit(t) ==
    /\ started[t] /\ pc[t] = "init"
    /\ prev_color' = parentColor
    /\ pc' = [pc EXCEPT ![t] = "check"]
    /\ iter' = [iter EXCEPT ![t] = [failedBefore |-> FALSE,
                                    left |-> LeftBy(t, parentColor),
                                    base |-> parentColor[4]]]
    /\ UNCHANGED <<thread, nThreads, started, stopEv, color, continuous,
                   config, parentColor, lastPush, calls, hist, callErr,
                   stopReq>>
    /\ UNCHANGED otherVars

\* match_color, line 155: while not self.thread.stopped()
LoopCheck(t) ==
    /\ started[t] /\ pc[t] = "check"
    /\ IF stopped(thread)
       THEN /\ pc' = [pc EXCEPT ![t] = "exited"]
            /\ iter' = [iter EXCEPT ![t] = NoIter]
       ELSE /\ calls < MaxCalls
            /\ pc' = [pc EXCEPT ![t] = "sample"]
            /\ UNCHANGED iter
    /\ UNCHANGED <<thread, nThreads, started, stopEv, color, prev_color,
                   continuous, config, parentColor, lastPush, calls, hist,
                   callErr, stopReq>>
    /\ UNCHANGED otherVars

\* the except clause of match_color, lines 165-168: a caught exception
\* continues the loop, any other one ends the thread; self.prev_color is
\* not assigned on either path
Raise(t, exc) ==
    /\ pc' = [pc EXCEPT ![t] = IF LoopCatches(exc) THEN "check" ELSE "dead"]
    /\ color' = [color EXCEPT ![t] = NoColor]
    /\ prev_color' = prev_color
    /\ iter' = [iter EXCEPT ![t] =
                  IF LoopCatches(exc)
                  THEN [@ EXCEPT !.failedBefore = FALSE]
                  ELSE NoIter]

\* self.prev_color assigned before set_color is known to have succeeded
RaiseFromPushClobbers(t, exc) ==
    /\ pc' = [pc EXCEPT ![t] = IF LoopCatches(exc) THEN "check" ELSE "dead"]
    /\ color' = [color EXCEPT ![t] = NoColor]
    /\ prev_color' = color[t]
    /\ iter' = [iter EXCEPT ![t] =
                  [failedBefore |-> exc = "OSError",
                   left |-> IF LoopCatches(exc) THEN @.left ELSE NoColor,
                   base |-> IF LoopCatches(exc) THEN @.base ELSE 0]]

\* set_color raised: as Raise, and the iteration is remembered as failed
RaiseFromPush(t, exc) ==
    /\ pc' = [pc EXCEPT ![t] = IF LoopCatches(exc) THEN "check" ELSE "dead"]
    /\ color' = [color EXCEPT ![t] = NoColor]
    /\ prev_color' = prev_color
    /\ iter' = [iter EXCEPT ![t] =
                  [failedBefore |-> exc = "OSError",
                   left |-> IF LoopCatches(exc) THEN @.left ELSE NoColor,
                   base |-> IF LoopCatches(exc) THEN @.base ELSE 0]]

\* match_color, lines 157-159: color = list(self.color_function(...))
Sample(t) ==
    /\ started[t] /\ pc[t] = "sample"
    /\ \E out \in {"none", "OSError", "Exception"} :
         IF out = "none"
         THEN \E hsb \in ScreenHSB :
                /\ color' = [color EXCEPT
                               ![t] = SamplerResult(hsb, prev_color)]
                /\ pc' = [pc EXCEPT ![t] = "push"]
                /\ UNCHANGED <<prev_color, iter>>
         ELSE Raise(t, out)
    /\ UNCHANGED <<thread, nThreads, started, stopEv, continuous, config,
                   parentColor, lastPush, calls, hist, callErr, stopReq>>
    /\ UNCHANGED otherVars

\* match_color, lines 160-163: the offset is added to the local colour and
\* bulb.set_color(color, duration=..., rapid=...) is called; both statements
\* read only the configuration and the worker's own local
Push(t) ==
    /\ started[t] /\ pc[t] = "push"
    /\ calls < MaxCalls
    /\ LET off == get_brightness_offset
           dur == get_duration
           pushed == ApplyOffset(color[t], off.val)
       IN IF off.exc # "none" \/ dur.exc # "none"
          THEN /\ Raise(t, IF off.exc # "none" THEN off.exc ELSE dur.exc)
               /\ UNCHANGED <<lastPush, calls>>
          ELSE /\ calls' = calls + 1
               /\ \E out \in {"none", "OSError", "Exception"} :
                    /\ lastPush' = [color |-> pushed,
                                    duration |-> dur.val * 1000,
                                    rapid |-> ReadContinuous,
                                    ok |-> out = "none"]
                    /\ IF out = "none"
                       THEN /\ pc' = [pc EXCEPT ![t] = "assign"]
                            /\ color' = [color EXCEPT ![t] = pushed]
                            /\ UNCHANGED <<prev_color, iter>>
                       ELSE RaiseFromPush(t, out)
    /\ UNCHANGED <<thread, nThreads, started, stopEv, continuous, config,
                   parentColor, hist, callErr, stopReq>>
    /\ UNCHANGED otherVars

\* match_color, line 164 and the test of line 169: self.prev_color = color;
\* if not self.continuous
Assign(t) ==
    /\ started[t] /\ pc[t] = "assign"
    /\ prev_color' = color[t]
    /\ color' = [color EXCEPT ![t] = NoColor]
    /\ pc' = [pc EXCEPT ![t] = IF ReadContinuous THEN "check"
                                ELSE "oneshot"]
    /\ iter' = [iter EXCEPT ![t] = [failedBefore |-> FALSE,
                                    left |-> LeftBy(t, color[t]),
                                    base |-> @.base]]
    /\ UNCHANGED <<thread, nThreads, started, stopEv, continuous, config,
                   parentColor, lastPush, calls, hist, callErr, stopReq>>
    /\ UNCHANGED otherVars

\* match_color, line 170: self.stop()
OneShot(t) ==
    /\ started[t] /\ pc[t] = "oneshot"
    /\ stopEv' = EventSet(stopEv, thread)
    /\ pc' = [pc EXCEPT ![t] = "check"]
    /\ UNCHANGED <<thread, nThreads, started, color, prev_color,
                   continuous, config, parentColor, lastPush, calls, hist,
                   callErr, stopReq, iter>>
    /\ UNCHANGED otherVars

\* ----------------------------------------------------------- environment
\* the settings are edited while the loop runs
EditConfig ==
    /\ \E c \in Configs : c # config /\ config' = c
    /\ UNCHANGED <<thread, nThreads, started, stopEv, pc, color, prev_color,
                   continuous, parentColor, lastPush, calls, hist, callErr,
                   stopReq, iter>>
    /\ UNCHANGED otherVars

\* the colour the parent frame reports changes: its kelvin is turned up
ParentColorChange ==
    /\ \E c \in ParentColors : c[4] > parentColor[4] /\ parentColor' = c
    /\ UNCHANGED <<thread, nThreads, started, stopEv, pc, color, prev_color,
                   continuous, config, lastPush, calls, hist, callErr,
                   stopReq, iter>>
    /\ UNCHANGED otherVars

\* `continuous` is switched off in the settings while the loop runs,
\* after its first push
EditContinuous ==
    /\ cfgContinuous
    /\ calls = 1
    /\ AliveWorkers # {}
    /\ cfgContinuous' = FALSE
    /\ UNCHANGED <<runnerVars, resolverVars, samplerVars, bucket, widgetVars>>

Worker(t) ==
    \/ MatchInit(t)
    \/ LoopCheck(t)
    \/ Sample(t)
    \/ Push(t)
    \/ Assign(t)
    \/ OneShot(t)

Next ==
    \/ start
    \/ stop
    \/ \E t \in Threads : Worker(t)
    \/ EditConfig
    \/ EditContinuous
    \/ ParentColorChange

Spec == Init /\ [][Next]_vars

TypeOK ==
    /\ thread \in Threads
    /\ nThreads \in 1 .. MaxThreads
    /\ \A t \in Threads : pc[t] \in Running \cup {"new", "exited", "dead"}
    /\ calls \in 0 .. MaxCalls
    /\ Len(hist) <= MaxCtl

\* --------------------------------------------- the offset step in isolation
\* sampled brightnesses and offsets around the clamp's edge
ClampSampled == {0, 1, 25535, 25536, 30000, 40000, 65534, 65535}
ClampOffsets == {-65536, -40000, -1, 0, 1, 25535, 40000, 65535}

\* a started worker that has just sampled and is about to execute line 160
ClampInit ==
    /\ thread = 0
    /\ nThreads = 1
    /\ started = [t \in Threads |-> t = 0]
    /\ stopEv = [t \in Threads |-> FALSE]
    /\ pc = [t \in Threads |-> IF t = 0 THEN "push" ELSE "new"]
    /\ parentColor \in ParentColors
    /\ prev_color = parentColor
    /\ \E b \in ClampSampled :
         color = [t \in Threads |->
                    IF t = 0
                    THEN SamplerResult(<<21845, 65535, b>>, prev_color)
                    ELSE NoColor]
    /\ continuous = TRUE
    /\ \E o \in ClampOffsets :
         config = [brightnessoffset |-> Num(o), duration |-> Num(1)]
    /\ lastPush = NoPush
    /\ calls = 0
    /\ hist = <<"start">>
    /\ callErr = "none"
    /\ stopReq = [t \in Threads |-> FALSE]
    /\ iter = [t \in Threads |->
                 IF t = 0 THEN [failedBefore |-> FALSE, left |-> parentColor,
                                base |-> parentColor[4]]
                 ELSE NoIter]
    /\ cfgContinuous = continuous
    /\ ResolverInit
    /\ SamplerInit
    /\ BucketInit
    /\ WidgetInit

ClampNext ==
    \/ Push(0)
    \/ Assign(0)

ClampSpec == ClampInit /\ [][ClampNext]_vars

\* ------------------------------------------- get_monitor_bounds in isolation
\* a runner that has been constructed and is never started
RunnerQuiet ==
    /\ RunnerInit
    /\ continuous
    /\ parentColor[4] = 3500
    /\ config.duration.val = 1

ResolverSpecInit ==
    /\ RunnerQuiet
    /\ cache = <<>>
    /\ nSelectors = 1
    /\ defaultMonitor \in Monitors
    /\ resolved = NoResolve
    /\ SamplerInit
    /\ BucketInit
    /\ WidgetInit

ResolverNext ==
    \/ ResolveDefault
    \/ ResolveLatest
    \/ ResolveFresh
    \/ EditDefaultMonitor

ResolverSpec == ResolverSpecInit /\ [][ResolverNext]_vars

\* -------------------------------------------------- the samplers in isolation
SamplerSpecInit ==
    /\ RunnerQuiet
    /\ ResolverInit
    /\ screen \in Screens
    /\ sampled = NoSample
    /\ BucketInit
    /\ WidgetInit

SamplerNext ==
    \/ \E c \in ParentColors : avg_screen_color(c)
    \/ \E c \in ParentColors : dominant_screen_color(c)

SamplerSpec == SamplerSpecInit /\ [][SamplerNext]_vars

\* ------------------------------------------- the bucket encoding in isolation
\* bytes and bucket numbers at the edges of the three digits
BucketBytes == {0, 1, 2, 127, 128, 254, 255}
BucketPixels == BucketBytes \X BucketBytes \X BucketBytes
BucketNumbers ==
    {0, 1, 255, 256, 257, 65535, 65536, 65537, 8421504, 16711680,
     16777214, 16777215}

BucketSpecInit ==
    /\ RunnerQuiet
    /\ ResolverInit
    /\ SamplerInit
    /\ WidgetInit
    /\ \/ \E rgb \in BucketPixels : bucket = Pixel(rgb)
       \/ \E n \in BucketNumbers : bucket = Bucket(n)

BucketNext ==
    \/ EncodePixel
    \/ DecodeBucket

BucketSpec == BucketSpecInit /\ [][BucketNext]_vars

\* ------------------------------------------------- ColorScale in isolation
WidgetSpecInit ==
    /\ RunnerQuiet
    /\ ResolverInit
    /\ SamplerInit
    /\ BucketInit
    /\ \E from_ \in FromValues, to \in ToValues, cmd \in BOOLEAN,
          w \in WidgetWidths :
         \/ \E hue \in HueArgs : Constructed(from_, to, hue, cmd, w)
         \/ \E v \in WrittenValues :
              Constructed(from_, to, IntOf(v), cmd, w)

WidgetNext ==
    \/ \E x \in PointerXs : on_click(x)
    \/ \E x \in PointerXs : on_move(x)
    \/ \E v \in WrittenValues : ExternalWrite(v)

WidgetSpec == WidgetSpecInit /\ [][WidgetNext]_vars

\* ------------------------------------------------------------ properties
IsStartStep == hist' = Append(hist, "start")
IsStopStep == hist' = Append(hist, "stop")
InIteration(t) ==
    started[t] /\ pc[t] \in {"sample", "push", "assign", "oneshot"}
\* C1: two start() calls with no controller stop() in between spawn exactly
\* one worker, never two workers alive together, and raise no error.
NoDoubleStart ==
    hist = <<"start", "start">> =>
        /\ Cardinality(Started) = 1
        /\ Cardinality(AliveWorkers) <= 1
        /\ callErr = "none"

\* C2: at most one worker of the runner is executing match_color's loop:
\* never two workers inside an iteration, pushing to the same bulb.
SingleWorker == Cardinality({t \in Threads : InIteration(t)}) <= 1

\* C3: start() while a worker is alive (Running or StopRequested) spawns no
\* worker, keeps the runner's thread object and keeps the stop request.
StartIsNoOpUnlessIdle ==
    [][(IsStartStep /\ AliveWorkers # {}) =>
          /\ thread' = thread
          /\ nThreads' = nThreads
          /\ started' = started
          /\ pc' = pc
          /\ stopped(thread)' = stopped(thread)]_vars

\* C4: a runner with continuous = false that is started once makes exactly
\* one set_color call and its worker then exits; never a second call.
OneShotSemantics ==
    (~continuous /\ hist = <<"start">>) =>
        /\ calls <= 1
        /\ pc[0] \in {"exited", "dead"} => (pc[0] = "exited" /\ calls = 1)

\* C5: a worker that was running when stop() was called starts no new
\* iteration the next time it evaluates the stop flag: it exits.
BoundedStop ==
    [][\A t \in Threads :
          (stopReq[t] /\ pc[t] = "check" /\ pc'[t] # "check")
              => pc'[t] = "exited"]_vars

\* C6: no worker ever terminates because of an exception raised inside an
\* iteration; a worker ends only by observing the stop flag.
WorkerNeverDies == \A t \in Threads : pc[t] # "dead"

RestartFromIdle ==
    [][/\ (IsStartStep /\ AliveWorkers = {}) =>
              \E t \in Threads : AliveWorkers' = {t} /\ pc'[t] = "init"
       /\ \A t \in Threads :
              (pc[t] = "init" /\ pc'[t] # "init")
                  => (pc'[t] = "check" /\ prev_color' = parentColor)]_vars

\* C9: stop() raises no error in any state, only sets the current thread's
\* stop event (a repeated stop() changes nothing), and a worker that has
\* exited stays exited: at most one natural exit per worker.
StopIdempotentAndSafe ==
    [][/\ IsStopStep =>
              /\ callErr' = "none"
              /\ stopEv' = [stopEv EXCEPT ![thread] = TRUE]
              /\ stopped(thread) => stopEv' = stopEv
              /\ UNCHANGED <<thread, nThreads, started, pc, prev_color>>
       /\ \A t \in Threads : pc[t] = "exited" => pc'[t] = "exited"]_vars

\* C9 witness: stop() called twice in a row on a running loop, the worker
\* has exited
StoppedTwiceAndExited ==
    /\ hist = <<"start", "stop", "stop">>
    /\ pc[0] = "exited"
    /\ callErr = "none"

\* C10: the brightness passed to set_color is min(b + o, 65535) for the
\* sampled brightness b and the configured offset o, and never above 65535.
OffsetClamp ==
    [][\A t \in Threads :
          (pc[t] = "push" /\ pc'[t] # "push" /\ calls' = calls + 1) =>
              /\ lastPush'.color[3] =
                     MinOf(color[t][3] + config.brightnessoffset.val,
                           MAX_BRIGHTNESS)
              /\ lastPush'.color[3] <= MAX_BRIGHTNESS
              /\ \A i \in {1, 2, 4} : lastPush'.color[i] = color[t][i]]_vars

\* C10 witness: with an offset of 40000 the maximum brightness was pushed
PushedClamped ==
    /\ calls = 1
    /\ config.brightnessoffset.val = 40000
    /\ lastPush.color[3] = MAX_BRIGHTNESS

\* C11: the sampler's result carries the kelvin of the initial_color it is
\* given, and over the run of one worker every colour it pushes and every
\* prev_color it assigns carries the kelvin of the baseline that worker
\* fetched when it started.
TemperatureCarryForward ==
    [][\A t \in Threads :
          /\ (pc[t] = "sample" /\ pc'[t] = "push")
                 => color'[t][4] = prev_color[4]
          /\ (pc[t] = "push" /\ pc'[t] # "push" /\ calls' = calls + 1)
                 => lastPush'.color[4] = iter[t].base
          /\ (pc[t] = "assign" /\ pc'[t] # "assign")
                 => prev_color'[4] = iter[t].base]_vars

\* C12: every push uses the duration and the brightness offset that the
\* configuration holds when that iteration executes, not values read when
\* the runner was started.
LiveTunableConfig ==
    [][\A t \in Threads :
          (pc[t] = "push" /\ pc'[t] # "push" /\ calls' = calls + 1) =>
              /\ config.duration.num /\ config.brightnessoffset.num
              /\ lastPush'.duration = config.duration.val * 1000
              /\ lastPush'.color[3] =
                     MinOf(color[t][3] + config.brightnessoffset.val,
                           MAX_BRIGHTNESS)]_vars

\* C12 witness: one start(), a first push made with offset -40000 and
\* assigned, the settings edited, a second push made with the new duration
\* and the new offset
EditedBetweenPushes ==
    /\ hist = <<"start">>
    /\ calls = 2
    /\ prev_color[3] = 30000 - 40000
    /\ lastPush.duration = 2000
    /\ lastPush.color[3] = MAX_BRIGHTNESS

\* C13: get_monitor_bounds(selector) called with a selector that is not
\* cached invokes it and returns its result when non-empty, the configured
\* default otherwise; called with a cached selector it returns the cached
\* descriptor without invoking the selector, whatever the default is by
\* then; the cache never holds more than 32 entries, and the entry dropped
\* to make room is the least recently used one.
RegionResolverMemoized ==
    [][(resolverVars' # resolverVars /\ defaultMonitor' = defaultMonitor) =>
          LET f == resolved'.func
              kept == IF f \in Keys(cache) \/ Len(cache) < maxsize
                      THEN cache ELSE Tail(cache)
          IN /\ Len(cache') <= maxsize
             /\ IF f \in Keys(cache)
                THEN /\ ~resolved'.invoked
                     /\ \E i \in 1 .. Len(cache) :
                            cache[i] = <<f, resolved'.result>>
                ELSE /\ resolved'.invoked
                     /\ resolved'.result =
                            IF SelectorReturns(f) \in {None, ""}
                            THEN defaultMonitor ELSE SelectorReturns(f)
             /\ cache'[Len(cache')] = <<f, resolved'.result>>
             /\ Without(cache', f) = Without(kept, f)]_vars

\* C13 witness: more selectors than the cache holds have been resolved, the
\* cache is full, and the default selector was just answered from the
\* cache with a descriptor that is no longer the configured default
CachedDefaultSurvivesEdit ==
    /\ nSelectors > maxsize
    /\ Len(cache) = maxsize
    /\ resolved.func = 0
    /\ ~resolved.invoked
    /\ resolved.result # defaultMonitor

\* pixels of the image that have colour c
PixelsOf(img, c) ==
    img.height * Cardinality({x \in 1 .. img.width : img.cols[x] = c})

\* C14: when one RGB value occupies strictly more pixels of the captured
\* image than any other value, dominant_screen_color returns that value.
DominantSamplerCorrect ==
    (sampled.by = "dominant" /\ sampled.exc = "none") =>
        \A c \in Palette :
            (\A d \in Palette \ {c} :
                 PixelsOf(screen, c) > PixelsOf(screen, d))
                => sampled.rgb = c

\* C15: a sampler invoked on a region of zero width or height, or the
\* dominant sampler on an image that is zero-sized after the 4x downscale,
\* fails with an InvalidRegion error: it returns no colour and raises no
\* other error.
DegenerateRegionIsInvalidRegion ==
    (\/ sampled.by # "none" /\ EmptyRegion(screen)
     \/ sampled.by = "dominant" /\ EmptyAfterDownscale(screen))
        => sampled.exc = "InvalidRegion"

PrevColorConsistent ==
    [][\A t \in Threads :
          (/\ pc[t] = "assign" /\ pc'[t] # "assign"
           /\ \A u \in Threads : pc'[u] # "assign"
           /\ lastPush.ok)
              => prev_color' = lastPush.color]_vars

\* C18: r*65536 + g*256 + b maps the pixels {0..255}^3 one-to-one onto the
\* bucket numbers 0 .. 2^24 - 1, and decoding a pixel's bucket number gives
\* the pixel back.
BucketBijection ==
    /\ bucket.stage \in {"encoded", "decoded"} =>
          /\ bucket.n = bucket.rgb0[1] * 65536 + bucket.rgb0[2] * 256
                          + bucket.rgb0[3]
          /\ bucket.n \in 0 .. 16777215
          /\ \A other \in BucketPixels :
                Encode(other, 256, 256) = bucket.n => other = bucket.rgb0
    /\ bucket.stage = "decoded" => bucket.rgb = bucket.rgb0
    /\ bucket.stage \in {"unraveled", "reencoded"} =>
          \A i \in 1 .. 3 : bucket.rgb[i] \in 0 .. 255
    /\ bucket.stage = "reencoded" => bucket.n = bucket.n0

\* C18 witness: the pixel (127, 255, 128) was encoded and decoded again
PixelRoundTrip ==
    /\ bucket.stage = "decoded"
    /\ bucket.rgb0 = <<127, 255, 128>>
    /\ bucket.n = 8388480

\* C19: whatever brightness in 0 .. 65535 was sampled and whatever integer
\* offset the settings hold, the brightness passed to set_color lies in
\* 0 .. 65535.
BrightnessInRange ==
    lastPush.color # NoColor =>
        (0 <= lastPush.color[3] /\ lastPush.color[3] <= MAX_BRIGHTNESS)

\* C20: after the widget has processed a write to its hue variable, be it
\* the one of the construction, of a click, of a drag or an external one,
\* the variable holds a hue within [from_, to], and <<HueChanged>> was
\* generated for that write, followed by the command when one is set.
HueNotified ==
    /\ variable \in self_min .. self_max
    /\ notified.events = 1
    /\ command => notified.commands = 1
====
